---- MODULE Spec2Model ----
(***************************************************************************)
(* Model of the phone-validation HTTP facade.  The repository holds five   *)
(* revisions of the same Express server:                                   *)
(*   "server"   src/server.js                                              *)
(*   "part000"  src/unnamed/part_000                                       *)
(*   "part001"  src/unnamed/part_001                                       *)
(*   "part002a" src/unnamed/part_002, lines 1-233   (first revision)       *)
(*   "part002b" src/unnamed/part_002, lines 235-343 (second revision)      *)
(* One process runs one revision; a request is handled in two steps: the   *)
(* synchronous prefix of the handler up to its first await, and the        *)
(* continuation that runs when the provider's promise settles.             *)
(*                                                                         *)
(* JavaScript strings that the code inspects are sequences of one-letter   *)
(* strings; a JavaScript value is a record [t, s] with t its type tag.     *)
(***************************************************************************)
EXTENDS Integers, Sequences, FiniteSets, TLC

\* ------------------------------------------------------------------ bounds
MaxLocal == 8          \* longest subscriber part of a generated phone input

\* ------------------------------------------------------- JavaScript values
Undef    == [t |-> "undef", s |-> <<>>]
Null     == [t |-> "null",  s |-> <<>>]
Str(s)   == [t |-> "str",   s |-> s]
JBool(b) == [t |-> "bool",  s |-> IF b THEN <<"true">> ELSE <<"false">>]
\* a message text: never inspected letter by letter, kept as one token
Text(m)  == [t |-> "str",   s |-> <<m>>]

\* truthiness of a value (undefined, null, "" and false are falsy)
Truthy(v) ==
  \/ v.t = "str"  /\ v.s # <<>>
  \/ v.t = "bool" /\ v.s = <<"true">>

\* a || b
Or(a, b) == IF Truthy(a) THEN a ELSE b

\* String.prototype.toString on the values `x || ""` can produce
ToStr(v) == IF v.t = "str" THEN v.s ELSE <<>>

DigitChars == {"0", "1", "2", "3", "4", "5", "6", "7", "8", "9"}
IsDigit(c) == c \in DigitChars

\* s.replace(/\D/g, "")
StripNonDigits(s) == SelectSeq(s, IsDigit)

\* s.slice(n) for 0 <= n
Slice(s, n) == IF n >= Len(s) THEN <<>> ELSE SubSeq(s, n + 1, Len(s))

LowerLetters == <<"a","b","c","d","e","f","g","h","i","j","k","l","m",
                  "n","o","p","q","r","s","t","u","v","w","x","y","z">>
UpperLetters == <<"A","B","C","D","E","F","G","H","I","J","K","L","M",
                  "N","O","P","Q","R","S","T","U","V","W","X","Y","Z">>

LowerChar(c) ==
  IF \E i \in 1..26 : UpperLetters[i] = c
  THEN LowerLetters[CHOOSE i \in 1..26 : UpperLetters[i] = c]
  ELSE c

UpperChar(c) ==
  IF \E i \in 1..26 : LowerLetters[i] = c
  THEN UpperLetters[CHOOSE i \in 1..26 : LowerLetters[i] = c]
  ELSE c

\* s.toLowerCase(), s.toUpperCase()
ToLowerCase(s) == [i \in 1..Len(s) |-> LowerChar(s[i])]
ToUpperCase(s) == [i \in 1..Len(s) |-> UpperChar(s[i])]

WhiteSpace == {" ", "\t", "\n"}

\* s.trim()
RECURSIVE TrimLeft(_)
TrimLeft(s) ==
  IF s # <<>> /\ Head(s) \in WhiteSpace THEN TrimLeft(Tail(s)) ELSE s

RECURSIVE TrimRight(_)
TrimRight(s) ==
  IF s # <<>> /\ s[Len(s)] \in WhiteSpace
  THEN TrimRight(SubSeq(s, 1, Len(s) - 1)) ELSE s

\* a trim that leaves the padding in place
TrimIdentity(s) == s

Trim(s) == TrimRight(TrimLeft(s))

\* a pattern one zero short: /000$/
EndsIn000(local) ==
  /\ Len(local) >= 3
  /\ \A i \in (Len(local) - 2)..Len(local) : local[i] = "0"

\* /0000$/.test(local)
EndsIn0000(local) ==
  /\ Len(local) >= 4
  /\ \A i \in (Len(local) - 3)..Len(local) : local[i] = "0"

\* a repetition count one too high: /^(\d)\1{7,}$/
AllSameDigitOneMore(local) ==
  /\ Len(local) >= 8
  /\ IsDigit(local[1])
  /\ \A i \in 2..Len(local) : local[i] = local[1]

\* /^(\d)\1{6,}$/.test(local)
AllSameDigit(local) ==
  /\ Len(local) >= 7
  /\ IsDigit(local[1])
  /\ \A i \in 2..Len(local) : local[i] = local[1]

\* ------------------------------------------------------- string literals
S_US          == <<"U","S">>
S_CA          == <<"C","A">>
S_plus1       == <<"+","1">>
S_unknown     == <<"u","n","k","n","o","w","n">>
S_UNKNOWN     == <<"U","N","K","N","O","W","N">>
S_UNREACHABLE == <<"U","N","R","E","A","C","H","A","B","L","E">>
S_REACHABLE   == <<"R","E","A","C","H","A","B","L","E">>
S_bad_length  == <<"b","a","d","-","l","e","n","g","t","h">>
S_fake        == <<"f","a","k","e","-","p","a","t","t","e","r","n">>
S_error       == <<"e","r","r","o","r">>
S_non_us      == <<"n","o","n","-","u","s">>
S_unreachable == <<"u","n","r","e","a","c","h","a","b","l","e">>
S_reachable   == <<"r","e","a","c","h","a","b","l","e">>
S_ok          == <<"o","k">>
S_mobile      == <<"m","o","b","i","l","e">>
S_landline    == <<"l","a","n","d","l","i","n","e">>
S_voip        == <<"v","o","i","p">>
S_fixed_line  == <<"f","i","x","e","d","_","l","i","n","e">>
S_fixed_or_mobile ==
  <<"f","i","x","e","d","_","l","i","n","e","_","o","r","_","m","o","b","i","l","e">>
S_invalid     == <<"i","n","v","a","l","i","d">>
S_approved    == <<"a","p","p","r","o","v","e","d">>
S_pending     == <<"p","e","n","d","i","n","g">>

\* ------------------------------------------------------------ JSON bodies
\* An object literal is a function from its keys to values; res.json()
\* serialises it with JSON.stringify, which drops undefined-valued keys.
Json(obj) == [k \in {f \in DOMAIN obj : obj[f].t # "undef"} |-> obj[k]]

\* res.status(st).json(obj) as the pair the client receives
Reply(st, obj) == [status |-> st, body |-> Json(obj)]

HTTP_OK == 200          \* Express's default status, used by a bare res.json()

MSG_TEN_DIGIT  == Text("Please enter a 10-digit US phone number.")
MSG_REAL       == Text("Please enter a real, reachable mobile or landline number.")
MSG_VALID_US   == Text("Valid US phone.")
MSG_COULD_NOT  == Text("Could not validate phone number.")

\* ----------------------------------------------------------------- inputs
AreaCode    == <<"5", "5", "5">>
LocalDigits == {"0", "8"}

Rep(c, n) == [i \in 1..n |-> c]

\* every subscriber part of the right length over two digits
FullLocals == [1..7 -> LocalDigits]

\* subscriber parts of every length up to MaxLocal: 0?8..80..0
RunLocals ==
  {Rep("0", c) \o Rep("8", a) \o Rep("0", b) :
     <<c, a, b>> \in {t \in (0..1) \X (0..MaxLocal) \X (0..MaxLocal) :
                        t[1] + t[2] + t[3] <= MaxLocal}}

\* "555-888-8888": the digits with the usual separators
Dashed(d) ==
  IF Len(d) <= 3 THEN d \o <<"-">>
  ELSE IF Len(d) <= 6 THEN SubSeq(d, 1, 3) \o <<"-">> \o SubSeq(d, 4, Len(d))
  ELSE SubSeq(d, 1, 3) \o <<"-">> \o SubSeq(d, 4, 6) \o <<"-">> \o SubSeq(d, 7, Len(d))

\* req.body.phone: absent, empty, bare digits or digits with separators
PhoneInputs ==
  {Undef, Str(<<>>)}
    \cup {Str(AreaCode \o l) : l \in FullLocals \cup RunLocals}
    \cup {Str(Dashed(AreaCode \o l)) : l \in RunLocals}

\* req.body.code: absent, empty, blank, or a code with or without padding
CodeInputs ==
  {Undef, Str(<<>>), Str(<<" ">>), Str(<<"1", "2">>), Str(<<" ", "1", "2", " ">>)}

Revisions == {"server", "part000", "part001", "part002a", "part002b"}

\* process.env.TWILIO_VERIFY_SERVICE_SID / TWILIO_VERIFY_SID: unset or set
SidValues == {Undef, Str(<<"V", "A">>)}

\* ------------------------------------------------------- provider replies
\* A settled promise of client.lookups.v2.phoneNumbers(x).fetch(...).
\* A timeout of the HTTP client settles the promise as a rejection.
NoLookup == [state |-> "none", countryCode |-> Undef, lineType |-> Undef,
             reachability |-> Undef, carrierType |-> Undef, phoneNumber |-> Undef]

LookupRejected == [NoLookup EXCEPT !.state = "rejected"]

CountryCodes   == {Undef, Str(S_US), Str(S_CA)}
LineTypes      == {Undef, Str(S_mobile), Str(S_voip), Str(<<"V","o","I","P">>),
                   Str(S_landline)}
Reachabilities == {Undef, Str(S_reachable), Str(S_unreachable),
                   Str(<<"U","n","R","e","a","c","h","a","b","l","e">>)}

\* line_type_intelligence lookups (server.js, part_001, part_002)
LtiLookups ==
  {[NoLookup EXCEPT !.state = "resolved", !.countryCode = cc,
                    !.lineType = lt, !.reachability = re] :
     cc \in CountryCodes, lt \in LineTypes, re \in Reachabilities}

TollFreeNumber == <<"+","1","8","0","0","5","5","5","8","8","8","0">>
PlainNumber    == <<"+","1","5","5","5","8","8","8","8","8","8","0">>

\* carrier lookups (part_000)
CarrierLookups ==
  {[NoLookup EXCEPT !.state = "resolved", !.countryCode = cc,
                    !.carrierType = ct, !.phoneNumber = pn] :
     cc \in {Undef, Str(S_US)},
     ct \in {Undef, Str(S_mobile), Str(S_voip), Str(<<"V","o","I","P">>),
             Str(S_landline)},
     pn \in {Undef, Str(TollFreeNumber), Str(PlainNumber)}}

LookupReplies(r) ==
  {LookupRejected} \cup (IF r = "part000" THEN CarrierLookups ELSE LtiLookups)

\* A settled promise of client.verify.v2.services(sid).verifications.create
\* or .verificationChecks.create.  Without a service identifier the request
\* addresses no service and the promise can only be rejected.
NoVerify == [state |-> "none", status |-> Undef]

VerifyReplies(sid, statuses) ==
  {[state |-> "rejected", status |-> Undef]}
    \cup (IF Truthy(sid)
          THEN {[state |-> "resolved", status |-> Str(st)] : st \in statuses}
          ELSE {})

\* ------------------------------------------------------------------ state
VARIABLES
  rev,        \* which revision of the server this process runs
  verifySid,  \* VERIFY_SERVICE_SID (VERIFY_SID in part_002)
  pc,         \* "idle", "lookup", "create", "check" (awaiting) or "done"
  req,        \* the request being handled: [endpoint, phone, code]
  e164,       \* the handler's local e164 / to, live across the await
  calls,      \* provider operations invoked for this request, in order
  lookup,     \* the settled lookup promise of this request
  verify,     \* the settled verify promise of this request
  resp,       \* the response sent: [status, body]
  sent        \* number of responses sent for this request

vars == <<rev, verifySid, pc, req, e164, calls, lookup, verify, resp, sent>>

NoReq  == [endpoint |-> "none", phone |-> Undef, code |-> Undef]
NoResp == [status |-> 0, body |-> <<>>]

Init ==
  /\ rev \in Revisions
  /\ verifySid \in (IF rev \in {"part000", "part002b"} THEN {Undef} ELSE SidValues)
  /\ pc = "idle"
  /\ req = NoReq
  /\ e164 = <<>>
  /\ calls = <<>>
  /\ lookup = NoLookup
  /\ verify = NoVerify
  /\ resp = NoResp
  /\ sent = 0

\* The handler returns res.json(...): the response goes out, the request ends.
Respond(r) ==
  /\ pc' = "done"
  /\ resp' = r
  /\ sent' = sent + 1

\* The handler reaches `await client....`: the call is issued, the handler
\* is suspended at `label` with its local e164 kept.
Await(label, op, to) ==
  /\ pc' = label
  /\ e164' = to
  /\ calls' = Append(calls, [op |-> op, to |-> to])
  /\ UNCHANGED <<resp, sent>>

Accept(endpoint, phone, code) ==
  /\ pc = "idle"
  /\ req' = [endpoint |-> endpoint, phone |-> phone, code |-> code]

\* =============================================================== server.js
\* The local rejections of POST /validate-phone
Server_BadLength ==
  Reply(HTTP_OK, ("valid" :> JBool(FALSE)) @@ ("type" :> Str(S_bad_length))
                   @@ ("message" :> MSG_TEN_DIGIT))

Server_FakePattern ==
  Reply(HTTP_OK, ("valid" :> JBool(FALSE)) @@ ("type" :> Str(S_fake))
                   @@ ("message" :> MSG_REAL))

\* POST /validate-phone up to `await client.lookups...fetch`
Server_ValidatePhone ==
  /\ rev = "server"
  /\ \E phone \in PhoneInputs :
       /\ Accept("validate-phone", phone, Undef)
       /\ LET raw   == StripNonDigits(ToStr(Or(phone, Str(<<>>))))
              local == Slice(raw, 3)
          IN  IF Len(raw) # 10
              THEN Respond(Server_BadLength) /\ UNCHANGED <<e164, calls>>
              ELSE IF EndsIn0000(local) \/ AllSameDigit(local)
              THEN Respond(Server_FakePattern) /\ UNCHANGED <<e164, calls>>
              ELSE Await("lookup", "lookups.fetch", S_plus1 \o raw)
  /\ UNCHANGED <<rev, verifySid, lookup, verify>>

\* validity rules that test the country only when the lookup names one
Server_VerdictCountryIfPresent(l) ==
  LET countryCode  == Or(l.countryCode, Null)
      lineType     == Or(Str(ToLowerCase(ToStr(Or(l.lineType, Str(<<>>))))),
                         Str(S_unknown))
      reachability == Or(Str(ToUpperCase(ToStr(Or(l.reachability, Str(<<>>))))),
                         Str(S_UNKNOWN))
      reason == IF countryCode # Null /\ countryCode # Str(S_US) THEN S_non_us
                ELSE IF reachability = Str(S_UNREACHABLE) THEN S_unreachable
                ELSE S_ok
      valid  == reason = S_ok
  IN  Reply(HTTP_OK,
            ("valid" :> JBool(valid))
              @@ ("type" :> Or(lineType, Str(S_unknown)))
              @@ ("countryCode" :> countryCode)
              @@ ("reachability" :> reachability)
              @@ ("reason" :> Str(reason))
              @@ ("message" :> IF valid THEN MSG_VALID_US ELSE MSG_REAL))

\* The validity rules and the response built from a resolved lookup
Server_Verdict(l) ==
  LET countryCode  == Or(l.countryCode, Null)
      lineType     == Or(Str(ToLowerCase(ToStr(Or(l.lineType, Str(<<>>))))),
                         Str(S_unknown))
      reachability == Or(Str(ToUpperCase(ToStr(Or(l.reachability, Str(<<>>))))),
                         Str(S_UNKNOWN))
      reason == IF countryCode # Str(S_US) THEN S_non_us
                ELSE IF reachability = Str(S_UNREACHABLE) THEN S_unreachable
                ELSE S_ok
      valid  == reason = S_ok
  IN  Reply(HTTP_OK,
            ("valid" :> JBool(valid))
              @@ ("type" :> Or(lineType, Str(S_unknown)))
              @@ ("countryCode" :> countryCode)
              @@ ("reachability" :> reachability)
              @@ ("reason" :> Str(reason))
              @@ ("message" :> IF valid THEN MSG_VALID_US ELSE MSG_REAL))

\* The catch block of POST /validate-phone
Server_ValidateError ==
  Reply(500, ("valid" :> JBool(FALSE)) @@ ("type" :> Str(S_error))
               @@ ("message" :> MSG_COULD_NOT))

\* POST /validate-phone from the settled lookup to the response
Server_ValidatePhone_Resume ==
  /\ rev = "server"
  /\ pc = "lookup"
  /\ req.endpoint = "validate-phone"
  /\ \E l \in LookupReplies(rev) :
       /\ lookup' = l
       /\ IF l.state = "rejected"
          THEN Respond(Server_ValidateError)
          ELSE Respond(Server_Verdict(l))
  /\ UNCHANGED <<rev, verifySid, req, e164, calls, verify>>

\* the `!VERIFY_SERVICE_SID` response sent without res.status(500)
Server_NotConfiguredOk ==
  Reply(HTTP_OK, ("success" :> JBool(FALSE))
               @@ ("message" :> Text("Verify service not configured on server.")))

\* The `!VERIFY_SERVICE_SID` response of /start-verify and /check-verify
Server_NotConfigured ==
  Reply(500, ("success" :> JBool(FALSE))
               @@ ("message" :> Text("Verify service not configured on server.")))


\* POST /start-verify up to `await ...verifications.create`
Server_StartVerify ==
  /\ rev = "server"
  /\ \E phone \in PhoneInputs :
       /\ Accept("start-verify", phone, Undef)
       /\ LET raw == StripNonDigits(ToStr(Or(phone, Str(<<>>))))
          IN  IF ~Truthy(verifySid)
              THEN Respond(Server_NotConfigured) /\ UNCHANGED <<e164, calls>>
              ELSE IF Len(raw) # 10
              THEN /\ Respond(Reply(400, ("success" :> JBool(FALSE))
                                           @@ ("message" :> MSG_TEN_DIGIT)))
                   /\ UNCHANGED <<e164, calls>>
              ELSE Await("create", "verifications.create", S_plus1 \o raw)
  /\ UNCHANGED <<rev, verifySid, lookup, verify>>

\* POST /start-verify from the settled promise to the response
Server_StartVerify_Resume ==
  /\ rev = "server"
  /\ pc = "create"
  /\ \E v \in VerifyReplies(verifySid, {S_pending}) :
       /\ verify' = v
       /\ IF v.state = "rejected"
          THEN Respond(Reply(500, ("success" :> JBool(FALSE))
                 @@ ("message" :> Text("Could not start phone verification."))))
          ELSE Respond(Reply(HTTP_OK, ("success" :> JBool(TRUE))
                 @@ ("status" :> v.status)))
  /\ UNCHANGED <<rev, verifySid, req, e164, calls, lookup>>

\* POST /check-verify up to `await ...verificationChecks.create`
Server_CheckVerify ==
  /\ rev = "server"
  /\ \E phone \in PhoneInputs, c \in CodeInputs :
       /\ Accept("check-verify", phone, c)
       /\ LET raw  == StripNonDigits(ToStr(Or(phone, Str(<<>>))))
              code == Str(Trim(ToStr(Or(c, Str(<<>>)))))
          IN  IF ~Truthy(verifySid)
              THEN Respond(Server_NotConfigured) /\ UNCHANGED <<e164, calls>>
              ELSE IF Len(raw) # 10 \/ ~Truthy(code)
              THEN /\ Respond(Reply(400, ("success" :> JBool(FALSE))
                         @@ ("message" :> Text("Phone and code are required."))))
                   /\ UNCHANGED <<e164, calls>>
              ELSE Await("check", "verificationChecks.create", S_plus1 \o raw)
  /\ UNCHANGED <<rev, verifySid, lookup, verify>>

\* POST /check-verify from the settled promise to the response
Server_CheckVerify_Resume ==
  /\ rev = "server"
  /\ pc = "check"
  /\ \E v \in VerifyReplies(verifySid, {S_approved, S_pending}) :
       /\ verify' = v
       /\ IF v.state = "rejected"
          THEN Respond(Reply(500, ("success" :> JBool(FALSE))
                 @@ ("message" :> Text("Could not check verification code."))))
          ELSE Respond(Reply(HTTP_OK, ("success" :> JBool(TRUE))
                 @@ ("valid" :> JBool(v.status = Str(S_approved)))
                 @@ ("status" :> v.status)))
  /\ UNCHANGED <<rev, verifySid, req, e164, calls, lookup>>

\* ================================================================ part_000
TollFreePrefixes ==
  {<<"8","0","0">>, <<"8","8","8">>, <<"8","7","7">>, <<"8","6","6">>,
   <<"8","5","5">>, <<"8","4","4">>, <<"8","3","3">>, <<"8","2","2">>}

\* /^\+?1(800|888|877|866|855|844|833|822)\d{7}$/.test(e164)
TollFreeRegexTest(s) ==
  LET t == IF s # <<>> /\ Head(s) = "+" THEN Tail(s) ELSE s
  IN  /\ Len(t) = 11
      /\ t[1] = "1"
      /\ SubSeq(t, 2, 4) \in TollFreePrefixes
      /\ \A i \in 5..11 : IsDigit(t[i])

\* a decision that blocks toll-free numbers only: no allow-list, no VOIP block
P000_VerdictTollFreeOnly(l) ==
  LET carrierType == ToLowerCase(ToStr(Or(l.carrierType, Str(<<>>))))
      number      == ToStr(Or(l.phoneNumber, Str(<<>>)))
      ok          == ~TollFreeRegexTest(number)
  IN  IF ~ok
      THEN Reply(HTTP_OK, ("valid" :> JBool(FALSE))
                   @@ ("type" :> Or(Str(carrierType), Str(S_unknown)))
                   @@ ("message" :> MSG_REAL))
      ELSE Reply(HTTP_OK, ("valid" :> JBool(TRUE))
                   @@ ("e164" :> Str(number))
                   @@ ("type" :> Str(carrierType))
                   @@ ("countryCode" :> l.countryCode))

\* The decision and the response built from a resolved carrier lookup
P000_Verdict(l) ==
  LET carrierType == ToLowerCase(ToStr(Or(l.carrierType, Str(<<>>))))
      number      == ToStr(Or(l.phoneNumber, Str(<<>>)))
      isTollFree  == TollFreeRegexTest(number)
      typeOK      == carrierType \in {S_mobile, S_landline}
      isVoip      == carrierType = S_voip
      ok          == typeOK /\ ~isTollFree /\ ~isVoip
  IN  IF ~ok
      THEN Reply(HTTP_OK, ("valid" :> JBool(FALSE))
                   @@ ("type" :> Or(Str(carrierType), Str(S_unknown)))
                   @@ ("message" :> MSG_REAL))
      ELSE Reply(HTTP_OK, ("valid" :> JBool(TRUE))
                   @@ ("e164" :> Str(number))
                   @@ ("type" :> Str(carrierType))
                   @@ ("countryCode" :> l.countryCode))

\* the `!phone` response sent without res.status(400)
P000_MissingPhoneOk ==
  Reply(HTTP_OK, ("valid" :> JBool(FALSE))
               @@ ("message" :> Text("Please enter your phone number.")))

\* The `!phone` response
P000_MissingPhone ==
  Reply(400, ("valid" :> JBool(FALSE))
               @@ ("message" :> Text("Please enter your phone number.")))

\* The catch block
P000_LookupError ==
  Reply(HTTP_OK, ("valid" :> JBool(FALSE))
     @@ ("message" :> Text("This phone number could not be verified. Please check it and try again.")))

\* POST /validate-phone up to `await client.lookups...fetch`
P000_ValidatePhone ==
  /\ rev = "part000"
  /\ \E phone \in PhoneInputs :
       /\ Accept("validate-phone", phone, Undef)
       /\ IF ~Truthy(phone)
          THEN Respond(P000_MissingPhone) /\ UNCHANGED <<e164, calls>>
          ELSE Await("lookup", "lookups.fetch", ToStr(phone))
  /\ UNCHANGED <<rev, verifySid, lookup, verify>>

\* POST /validate-phone from the settled lookup to the response
P000_ValidatePhone_Resume ==
  /\ rev = "part000"
  /\ pc = "lookup"
  /\ \E l \in LookupReplies(rev) :
       /\ lookup' = l
       /\ IF l.state = "rejected"
          THEN Respond(P000_LookupError)
          ELSE Respond(P000_Verdict(l))
  /\ UNCHANGED <<rev, verifySid, req, e164, calls, verify>>

\* ================================================================ part_001
\* Normalisation results are records [ok, error, digits, e164]; `error` is
\* the response body of a rejection, empty where the source leaves it out.
P001_BadLength ==
  ("valid" :> JBool(FALSE)) @@ ("type" :> Str(S_bad_length))
    @@ ("message" :> MSG_TEN_DIGIT)

P001_FakePattern ==
  ("valid" :> JBool(FALSE)) @@ ("type" :> Str(S_fake))
    @@ ("message" :> MSG_REAL)

normalizeAndBasicCheck(rawPhone) ==
  LET digits == StripNonDigits(ToStr(Or(rawPhone, Str(<<>>))))
      local  == Slice(digits, 3)
  IN  IF Len(digits) # 10
      THEN [ok |-> FALSE, error |-> P001_BadLength, digits |-> <<>>, e164 |-> <<>>]
      ELSE IF EndsIn0000(local) \/ AllSameDigit(local)
      THEN [ok |-> FALSE, error |-> P001_FakePattern, digits |-> <<>>, e164 |-> <<>>]
      ELSE [ok |-> TRUE, error |-> <<>>, digits |-> digits, e164 |-> S_plus1 \o digits]

\* POST /validate-phone up to `await client.lookups...fetch`
P001_ValidatePhone ==
  /\ rev = "part001"
  /\ \E phone \in PhoneInputs :
       /\ Accept("validate-phone", phone, Undef)
       /\ LET norm == normalizeAndBasicCheck(phone)
          IN  IF ~norm.ok
              THEN Respond(Reply(HTTP_OK, norm.error)) /\ UNCHANGED <<e164, calls>>
              ELSE Await("lookup", "lookups.fetch", norm.e164)
  /\ UNCHANGED <<rev, verifySid, lookup, verify>>

\* The validity rules and the response built from a resolved lookup
P001_Verdict(l) ==
  LET countryCode  == Or(l.countryCode, Null)
      lineType     == Or(Str(ToLowerCase(ToStr(Or(l.lineType, Str(<<>>))))),
                         Str(S_unknown))
      reachability == Or(Str(ToUpperCase(ToStr(Or(l.reachability, Str(<<>>))))),
                         Str(S_UNKNOWN))
      reason == IF countryCode # Str(S_US) THEN S_non_us
                ELSE IF reachability = Str(S_UNREACHABLE) THEN S_unreachable
                ELSE S_ok
      valid  == reason = S_ok
  IN  Reply(HTTP_OK,
            ("valid" :> JBool(valid))
              @@ ("type" :> Or(lineType, Str(S_unknown)))
              @@ ("countryCode" :> countryCode)
              @@ ("reachability" :> reachability)
              @@ ("reason" :> Str(reason))
              @@ ("message" :> IF valid THEN MSG_VALID_US ELSE MSG_REAL))

\* The catch block of POST /validate-phone
P001_ValidateError ==
  Reply(500, ("valid" :> JBool(FALSE)) @@ ("type" :> Str(S_error))
               @@ ("message" :> MSG_COULD_NOT))

\* POST /validate-phone from the settled lookup to the response
P001_ValidatePhone_Resume ==
  /\ rev = "part001"
  /\ pc = "lookup"
  /\ req.endpoint = "validate-phone"
  /\ \E l \in LookupReplies(rev) :
       /\ lookup' = l
       /\ IF l.state = "rejected"
          THEN Respond(P001_ValidateError)
          ELSE Respond(P001_Verdict(l))
  /\ UNCHANGED <<rev, verifySid, req, e164, calls, verify>>

\* The `!VERIFY_SERVICE_SID` response of POST /start-verify
P001_StartNotConfigured ==
  Reply(500, ("sent" :> JBool(FALSE))
     @@ ("message" :> Text("Verify Service SID not configured on server.")))

\* The catch block of POST /start-verify
P001_StartError ==
  Reply(500, ("sent" :> JBool(FALSE))
     @@ ("message" :> Text("Could not start verification.")))

\* POST /start-verify up to the lookup gate's await
P001_StartVerify ==
  /\ rev = "part001"
  /\ \E phone \in PhoneInputs :
       /\ Accept("start-verify", phone, Undef)
       /\ LET norm == normalizeAndBasicCheck(phone)
          IN  IF ~norm.ok
              THEN Respond(Reply(HTTP_OK, norm.error)) /\ UNCHANGED <<e164, calls>>
              ELSE IF ~Truthy(verifySid)
              THEN Respond(P001_StartNotConfigured) /\ UNCHANGED <<e164, calls>>
              ELSE Await("lookup", "lookups.fetch", norm.e164)
  /\ UNCHANGED <<rev, verifySid, lookup, verify>>

\* POST /start-verify from the settled lookup to `await ...verifications.create`
P001_StartVerify_Gate ==
  /\ rev = "part001"
  /\ pc = "lookup"
  /\ req.endpoint = "start-verify"
  /\ \E l \in LookupReplies(rev) :
       /\ lookup' = l
       /\ LET countryCode  == Or(l.countryCode, Null)
              reachability == Or(Str(ToUpperCase(ToStr(Or(l.reachability, Str(<<>>))))),
                                 Str(S_UNKNOWN))
          IN  IF l.state = "rejected"
              THEN Respond(P001_StartError) /\ UNCHANGED <<e164, calls>>
              ELSE IF countryCode # Str(S_US)
              THEN /\ Respond(Reply(HTTP_OK, ("sent" :> JBool(FALSE))
                         @@ ("reason" :> Str(S_non_us))
                         @@ ("message" :> Text("Please enter a US phone number."))))
                   /\ UNCHANGED <<e164, calls>>
              ELSE IF reachability = Str(S_UNREACHABLE)
              THEN /\ Respond(Reply(HTTP_OK, ("sent" :> JBool(FALSE))
                         @@ ("reason" :> Str(S_unreachable))
                         @@ ("message" :> Text("This number appears unreachable. Please use a different phone."))))
                   /\ UNCHANGED <<e164, calls>>
              ELSE Await("create", "verifications.create", e164)
  /\ UNCHANGED <<rev, verifySid, req, verify>>

\* POST /start-verify from the settled verification to the response
P001_StartVerify_Resume ==
  /\ rev = "part001"
  /\ pc = "create"
  /\ \E v \in VerifyReplies(verifySid, {S_pending}) :
       /\ verify' = v
       /\ IF v.state = "rejected"
          THEN Respond(P001_StartError)
          ELSE Respond(Reply(HTTP_OK, ("sent" :> JBool(TRUE))
                 @@ ("to" :> Str(e164)) @@ ("status" :> v.status)))
  /\ UNCHANGED <<rev, verifySid, req, e164, calls, lookup>>

\* POST /check-verify up to `await ...verificationChecks.create`
P001_CheckVerify ==
  /\ rev = "part001"
  /\ \E phone \in PhoneInputs, c \in CodeInputs :
       /\ Accept("check-verify", phone, c)
       /\ LET norm == normalizeAndBasicCheck(phone)
              code == Str(Trim(ToStr(Or(c, Str(<<>>)))))
          IN  IF ~norm.ok
              THEN /\ Respond(Reply(HTTP_OK, ("valid" :> JBool(FALSE))
                         @@ ("message" :> Or(norm.error["message"],
                                             Text("Invalid phone number format.")))))
                   /\ UNCHANGED <<e164, calls>>
              ELSE IF ~Truthy(code)
              THEN /\ Respond(Reply(HTTP_OK, ("valid" :> JBool(FALSE))
                         @@ ("message" :> Text("Verification code is required."))))
                   /\ UNCHANGED <<e164, calls>>
              ELSE IF ~Truthy(verifySid)
              THEN /\ Respond(Reply(500, ("valid" :> JBool(FALSE))
                         @@ ("message" :> Text("Verify Service SID not configured on server."))))
                   /\ UNCHANGED <<e164, calls>>
              ELSE Await("check", "verificationChecks.create", norm.e164)
  /\ UNCHANGED <<rev, verifySid, lookup, verify>>

\* POST /check-verify from the settled promise to the response
P001_CheckVerify_Resume ==
  /\ rev = "part001"
  /\ pc = "check"
  /\ \E v \in VerifyReplies(verifySid, {S_approved, S_pending}) :
       /\ verify' = v
       /\ IF v.state = "rejected"
          THEN Respond(Reply(500, ("valid" :> JBool(FALSE))
                 @@ ("message" :> Text("Could not check verification code."))))
          ELSE LET isApproved == v.status = Str(S_approved)
               IN  Respond(Reply(HTTP_OK, ("valid" :> JBool(isApproved))
                     @@ ("status" :> v.status)
                     @@ ("message" :> IF isApproved
                           THEN Text("Phone number successfully verified.")
                           ELSE Text("The verification code you entered is invalid or expired."))))
  /\ UNCHANGED <<rev, verifySid, req, e164, calls, lookup>>

\* ================================================ part_002, first revision
\* Results are records [error, e164, digits]; error is undefined on success.
normalizePhone(rawInput) ==
  LET digits == StripNonDigits(ToStr(Or(rawInput, Str(<<>>))))
      local  == Slice(digits, 3)
  IN  IF Len(digits) # 10
      THEN [error |-> Str(S_bad_length), e164 |-> <<>>, digits |-> <<>>]
      ELSE IF EndsIn0000(local) \/ AllSameDigit(local)
      THEN [error |-> Str(S_fake), e164 |-> <<>>, digits |-> <<>>]
      ELSE [error |-> Undef, e164 |-> S_plus1 \o digits, digits |-> digits]

P002a_BadLength ==
  Reply(HTTP_OK, ("valid" :> JBool(FALSE)) @@ ("type" :> Str(S_bad_length))
                   @@ ("message" :> MSG_TEN_DIGIT))

P002a_FakePattern ==
  Reply(HTTP_OK, ("valid" :> JBool(FALSE)) @@ ("type" :> Str(S_fake))
                   @@ ("message" :> MSG_REAL))

\* POST /validate-phone up to `await client.lookups...fetch`
P002a_ValidatePhone ==
  /\ rev = "part002a"
  /\ \E phone \in PhoneInputs :
       /\ Accept("validate-phone", phone, Undef)
       /\ LET norm == normalizePhone(phone)
          IN  IF norm.error = Str(S_bad_length)
              THEN Respond(P002a_BadLength) /\ UNCHANGED <<e164, calls>>
              ELSE IF norm.error = Str(S_fake)
              THEN Respond(P002a_FakePattern) /\ UNCHANGED <<e164, calls>>
              ELSE Await("lookup", "lookups.fetch", norm.e164)
  /\ UNCHANGED <<rev, verifySid, lookup, verify>>

\* The validity rules and the response built from a resolved lookup
P002a_Verdict(l) ==
  LET countryCode  == Or(l.countryCode, Null)
      lineType     == Or(Str(ToLowerCase(ToStr(Or(l.lineType, Str(<<>>))))),
                         Str(S_unknown))
      reachability == Or(Str(ToUpperCase(ToStr(Or(l.reachability, Str(<<>>))))),
                         Str(S_UNKNOWN))
      reason == IF countryCode # Str(S_US) THEN S_non_us
                ELSE IF reachability = Str(S_UNREACHABLE) THEN S_unreachable
                ELSE S_ok
      valid  == reason = S_ok
  IN  Reply(HTTP_OK,
            ("valid" :> JBool(valid))
              @@ ("type" :> Or(lineType, Str(S_unknown)))
              @@ ("countryCode" :> countryCode)
              @@ ("reachability" :> reachability)
              @@ ("reason" :> Str(reason))
              @@ ("message" :> IF valid THEN MSG_VALID_US ELSE MSG_REAL))

\* The catch block of POST /validate-phone
P002a_ValidateError ==
  Reply(500, ("valid" :> JBool(FALSE)) @@ ("type" :> Str(S_error))
               @@ ("message" :> MSG_COULD_NOT))

\* POST /validate-phone from the settled lookup to the response
P002a_ValidatePhone_Resume ==
  /\ rev = "part002a"
  /\ pc = "lookup"
  /\ \E l \in LookupReplies(rev) :
       /\ lookup' = l
       /\ IF l.state = "rejected"
          THEN Respond(P002a_ValidateError)
          ELSE Respond(P002a_Verdict(l))
  /\ UNCHANGED <<rev, verifySid, req, e164, calls, verify>>

\* POST /start-verify up to `await ...verifications.create`
P002a_StartVerify ==
  /\ rev = "part002a"
  /\ \E phone \in PhoneInputs :
       /\ Accept("start-verify", phone, Undef)
       /\ LET norm == normalizePhone(phone)
          IN  IF Truthy(norm.error)
              THEN /\ Respond(Reply(HTTP_OK, ("ok" :> JBool(FALSE))
                         @@ ("reason" :> norm.error)
                         @@ ("message" :> Text("Please enter a valid 10-digit US phone number."))))
                   /\ UNCHANGED <<e164, calls>>
              ELSE Await("create", "verifications.create", norm.e164)
  /\ UNCHANGED <<rev, verifySid, lookup, verify>>

\* POST /start-verify from the settled promise to the response
P002a_StartVerify_Resume ==
  /\ rev = "part002a"
  /\ pc = "create"
  /\ \E v \in VerifyReplies(verifySid, {S_pending}) :
       /\ verify' = v
       /\ IF v.state = "rejected"
          THEN Respond(Reply(500, ("ok" :> JBool(FALSE))
                 @@ ("message" :> Text("Could not send verification code."))))
          ELSE Respond(Reply(HTTP_OK, ("ok" :> JBool(TRUE))
                 @@ ("status" :> v.status)
                 @@ ("message" :> Text("Verification code sent via SMS."))))
  /\ UNCHANGED <<rev, verifySid, req, e164, calls, lookup>>

\* POST /check-verify up to `await ...verificationChecks.create`
P002a_CheckVerify ==
  /\ rev = "part002a"
  /\ \E phone \in PhoneInputs, c \in CodeInputs :
       /\ Accept("check-verify", phone, c)
       /\ LET norm == normalizePhone(phone)
              code == Str(Trim(ToStr(Or(c, Str(<<>>)))))
          IN  IF Truthy(norm.error) \/ ~Truthy(code)
              THEN /\ Respond(Reply(HTTP_OK, ("ok" :> JBool(FALSE))
                         @@ ("status" :> Str(S_invalid))
                         @@ ("message" :> Text("Phone or code is missing or invalid."))))
                   /\ UNCHANGED <<e164, calls>>
              ELSE Await("check", "verificationChecks.create", norm.e164)
  /\ UNCHANGED <<rev, verifySid, lookup, verify>>

\* POST /check-verify from the settled promise to the response
P002a_CheckVerify_Resume ==
  /\ rev = "part002a"
  /\ pc = "check"
  /\ \E v \in VerifyReplies(verifySid, {S_approved, S_pending}) :
       /\ verify' = v
       /\ IF v.state = "rejected"
          THEN Respond(Reply(500, ("ok" :> JBool(FALSE))
                 @@ ("status" :> Str(S_error))
                 @@ ("message" :> Text("Error verifying code."))))
          ELSE LET approved == v.status = Str(S_approved)
               IN  Respond(Reply(HTTP_OK, ("ok" :> JBool(approved))
                     @@ ("status" :> v.status)
                     @@ ("message" :> IF approved THEN Text("Phone verified.")
                           ELSE Text("The code you entered is incorrect or expired."))))
  /\ UNCHANGED <<rev, verifySid, req, e164, calls, lookup>>

\* =============================================== part_002, second revision
looksFakeLocal(local) ==
  IF EndsIn0000(local) THEN TRUE
  ELSE IF AllSameDigit(local) THEN TRUE
  ELSE FALSE

P002b_BadLength ==
  Reply(HTTP_OK, ("valid" :> JBool(FALSE)) @@ ("type" :> Str(S_unknown))
                   @@ ("message" :> MSG_TEN_DIGIT))

P002b_FakePattern ==
  Reply(HTTP_OK, ("valid" :> JBool(FALSE)) @@ ("type" :> Str(S_fake))
                   @@ ("message" :> MSG_REAL))

\* POST /validate-phone up to `await client.lookups...fetch`
P002b_ValidatePhone ==
  /\ rev = "part002b"
  /\ \E phone \in PhoneInputs :
       /\ Accept("validate-phone", phone, Undef)
       /\ LET raw   == StripNonDigits(ToStr(Or(phone, Str(<<>>))))
              local == Slice(raw, 3)
          IN  IF Len(raw) # 10
              THEN Respond(P002b_BadLength) /\ UNCHANGED <<e164, calls>>
              ELSE IF looksFakeLocal(local)
              THEN Respond(P002b_FakePattern) /\ UNCHANGED <<e164, calls>>
              ELSE Await("lookup", "lookups.fetch", S_plus1 \o raw)
  /\ UNCHANGED <<rev, verifySid, lookup, verify>>

\* The rules and the response built from a resolved lookup; `to` is the
\* handler's local e164
P002b_Verdict(l, to) ==
  LET countryCode  == Or(l.countryCode, Null)
      lineType     == Or(Str(ToLowerCase(ToStr(Or(l.lineType, Str(<<>>))))),
                         Str(S_unknown))
      reachability == Or(Str(ToUpperCase(ToStr(Or(l.reachability, Str(<<>>))))),
                         Str(S_UNKNOWN))
      isUS        == countryCode = Str(S_US)
      isGoodType  == lineType.s \in {S_mobile, S_landline, S_fixed_line, S_fixed_or_mobile}
      isReachable == reachability = Str(S_REACHABLE)
      valid       == isUS /\ isGoodType /\ isReachable
  IN  IF ~valid
      THEN Reply(HTTP_OK, ("valid" :> JBool(FALSE))
                   @@ ("e164" :> Str(to))
                   @@ ("type" :> Or(lineType, Str(S_unknown)))
                   @@ ("countryCode" :> countryCode)
                   @@ ("reachability" :> reachability)
                   @@ ("message" :> Text("Please enter a real, reachable US mobile or landline number.")))
      ELSE Reply(HTTP_OK, ("valid" :> JBool(TRUE))
                   @@ ("e164" :> Str(to))
                   @@ ("type" :> lineType)
                   @@ ("countryCode" :> countryCode)
                   @@ ("reachability" :> reachability))

\* The catch block
P002b_ValidateError ==
  Reply(500, ("valid" :> JBool(FALSE)) @@ ("type" :> Str(S_error))
     @@ ("message" :> Text("We could not verify your phone number. Please try again.")))

\* POST /validate-phone from the settled lookup to the response
P002b_ValidatePhone_Resume ==
  /\ rev = "part002b"
  /\ pc = "lookup"
  /\ \E l \in LookupReplies(rev) :
       /\ lookup' = l
       /\ IF l.state = "rejected"
          THEN Respond(P002b_ValidateError)
          ELSE Respond(P002b_Verdict(l, e164))
  /\ UNCHANGED <<rev, verifySid, req, e164, calls, verify>>

\* ============================================================ the process
\* The response has gone out; the process is ready for the next request.
Finish ==
  /\ pc = "done"
  /\ pc' = "idle"
  /\ req' = NoReq
  /\ e164' = <<>>
  /\ calls' = <<>>
  /\ lookup' = NoLookup
  /\ verify' = NoVerify
  /\ resp' = NoResp
  /\ sent' = 0
  /\ UNCHANGED <<rev, verifySid>>

Next ==
  \/ Server_ValidatePhone
  \/ Server_ValidatePhone_Resume
  \/ Server_StartVerify
  \/ Server_StartVerify_Resume
  \/ Server_CheckVerify
  \/ Server_CheckVerify_Resume
  \/ P000_ValidatePhone
  \/ P000_ValidatePhone_Resume
  \/ P001_ValidatePhone
  \/ P001_ValidatePhone_Resume
  \/ P001_StartVerify
  \/ P001_StartVerify_Gate
  \/ P001_StartVerify_Resume
  \/ P001_CheckVerify
  \/ P001_CheckVerify_Resume
  \/ P002a_ValidatePhone
  \/ P002a_ValidatePhone_Resume
  \/ P002a_StartVerify
  \/ P002a_StartVerify_Resume
  \/ P002a_CheckVerify
  \/ P002a_CheckVerify_Resume
  \/ P002b_ValidatePhone
  \/ P002b_ValidatePhone_Resume
  \/ Finish

Spec == Init /\ [][Next]_vars

\* ================================================================== claims
\* What a client sees of a finished POST /validate-phone
ValidateDone == pc = "done" /\ req.endpoint = "validate-phone"

\* The revisions whose /validate-phone checks the input locally
LocalCheckRevs == {"server", "part001", "part002a", "part002b"}

\* The characters of the raw phone input (none when it is absent)
RawChars(v) == IF v.t = "str" THEN v.s ELSE <<>>

DigitCount(v) == Cardinality({i \in DOMAIN RawChars(v) : RawChars(v)[i] \in DigitChars})

Has(b, k) == k \in DOMAIN b

IsInvalid(b) == Has(b, "valid") /\ b["valid"] = JBool(FALSE)
IsValid(b)   == Has(b, "valid") /\ b["valid"] = JBool(TRUE)

\* The code a verdict names for its outcome: its reason, or the code the
\* local rejections put in `type`
CarriesCode(b, code) ==
  \/ Has(b, "reason") /\ b["reason"] = Str(code)
  \/ ~Has(b, "reason") /\ Has(b, "type") /\ b["type"] = Str(code)

HasReason(b, code) == Has(b, "reason") /\ b["reason"] = Str(code)

\* The lookup of this request resolved, after a successful normalisation
LookupSucceeded ==
  /\ ValidateDone
  /\ rev \in LocalCheckRevs
  /\ lookup.state = "resolved"

\* C1: in server.js, part_001 and both revisions of part_002, a phone input
\* whose digit count is not 10 (absent and empty included) is rejected by
\* POST /validate-phone with valid:false and the code 'bad-length'.
C1_BadLengthRejected ==
  (/\ rev \in LocalCheckRevs
   /\ req.endpoint = "validate-phone"
   /\ pc # "idle"
   /\ DigitCount(req.phone) # 10)
  => (/\ pc = "done"
      /\ IsInvalid(resp.body)
      /\ CarriesCode(resp.body, S_bad_length))

\* The ten digits of an input that strips to ten digits
TenDigits == StripNonDigits(RawChars(req.phone))

\* The last seven digits end in 0000, or are seven times the same digit
IsFakeLocal(d) ==
  \/ \A i \in 7..10 : d[i] = "0"
  \/ \A i \in 5..10 : d[i] = d[4]

\* C2: an input that strips to exactly 10 digits is rejected as
\* 'fake-pattern' exactly when its last 7 digits end in 0000 or are all the
\* same digit; otherwise normalisation succeeds with those digits and
\* e164 = "+1" followed by them (the key the lookup is called with).
C2_FakePatternExactly ==
  (/\ rev \in LocalCheckRevs
   /\ req.endpoint = "validate-phone"
   /\ pc # "idle"
   /\ DigitCount(req.phone) = 10)
  => IF IsFakeLocal(TenDigits)
     THEN /\ pc = "done"
          /\ calls = <<>>
          /\ IsInvalid(resp.body)
          /\ CarriesCode(resp.body, S_fake)
          /\ rev = "part001" => ~normalizeAndBasicCheck(req.phone).ok
          /\ rev = "part002a" => normalizePhone(req.phone).error = Str(S_fake)
     ELSE /\ calls = <<[op |-> "lookups.fetch", to |-> S_plus1 \o TenDigits]>>
          /\ rev = "part001" =>
               LET norm == normalizeAndBasicCheck(req.phone)
               IN  norm.ok /\ norm.digits = TenDigits
                           /\ norm.e164 = S_plus1 \o TenDigits
          /\ rev = "part002a" =>
               LET norm == normalizePhone(req.phone)
               IN  norm.error = Undef /\ norm.digits = TenDigits
                                      /\ norm.e164 = S_plus1 \o TenDigits

\* "555-888-8888" was rejected as fake-pattern without a lookup
C2_Witness ==
  /\ ValidateDone
  /\ rev = "part001"
  /\ req.phone = Str(<<"5","5","5","-","8","8","8","-","8","8","8","8">>)
  /\ CarriesCode(resp.body, S_fake)
  /\ calls = <<>>

\* C3: after a successful normalisation and a successful lookup whose
\* countryCode is not 'US', the verdict is valid:false with reason 'non-us',
\* whatever the line type and the reachability.
C3_NonUsRejected ==
  (LookupSucceeded /\ lookup.countryCode # Str(S_US))
  => (IsInvalid(resp.body) /\ HasReason(resp.body, S_non_us))

\* reachability is 'unreachable' in some letter case
SaysUnreachable(l) ==
  /\ l.reachability.t = "str"
  /\ Len(l.reachability.s) = Len(S_unreachable)
  /\ \A i \in 1..Len(S_unreachable) :
       l.reachability.s[i] \in {S_unreachable[i], S_UNREACHABLE[i]}

\* C4: after a successful normalisation and a successful lookup with
\* countryCode 'US' and reachability 'unreachable' in any letter case, the
\* verdict is valid:false with reason 'unreachable', for every line type.
C4_UnreachableRejected ==
  (LookupSucceeded /\ lookup.countryCode = Str(S_US) /\ SaysUnreachable(lookup))
  => (IsInvalid(resp.body) /\ HasReason(resp.body, S_unreachable))

\* C5: after a successful normalisation and a successful lookup with
\* lineType 'mobile', reachability 'reachable' and countryCode 'US', the
\* verdict is valid:true with reason 'ok'.
C5_MobileReachableUsOk ==
  (/\ LookupSucceeded
   /\ lookup.countryCode = Str(S_US)
   /\ lookup.lineType = Str(S_mobile)
   /\ lookup.reachability = Str(S_reachable))
  => (IsValid(resp.body) /\ HasReason(resp.body, S_ok))

VerdictFields == {"valid", "type", "countryCode", "reachability", "reason", "message"}

\* C6: every response body POST /validate-phone sends, on every path,
\* carries the six Verdict fields valid, type, countryCode, reachability,
\* reason and message.
C6_SixFieldsAlways ==
  ValidateDone => VerdictFields \subseteq DOMAIN resp.body

\* C7: when the lookup of a POST /validate-phone fails or times out, the
\* handler sends exactly one response, with valid:false and either HTTP
\* status 500 or reason 'error'.
C7_LookupFailureAnswered ==
  (req.endpoint = "validate-phone" /\ lookup.state = "rejected")
  => (/\ pc = "done"
      /\ sent = 1
      /\ IsInvalid(resp.body)
      /\ (resp.status = 500 \/ HasReason(resp.body, S_error)))

\* the code is absent, empty or only whitespace
IsBlankCode(c) == c.t # "str" \/ \A i \in DOMAIN c.s : c.s[i] \in WhiteSpace

IsFailurePayload(b) ==
  \E k \in {"success", "valid", "ok"} : Has(b, k) /\ b[k] = JBool(FALSE)

\* C8: a POST /check-verify whose code is absent, empty or only whitespace
\* is answered with a failure payload and never reaches the provider's
\* verification-check operation, whatever the phone and the configuration.
C8_BlankCodeNeverChecked ==
  (req.endpoint = "check-verify" /\ IsBlankCode(req.code))
  => (/\ pc = "done"
      /\ sent = 1
      /\ IsFailurePayload(resp.body)
      /\ \A i \in DOMAIN calls : calls[i].op # "verificationChecks.create")

\* a well-formed phone with a blank code was turned down by a configured server
C8_Witness ==
  /\ req.endpoint = "check-verify"
  /\ pc = "done"
  /\ rev = "server"
  /\ Truthy(verifySid)
  /\ req.phone = Str(<<"5","5","5","8","8","8","8","8","8","0">>)
  /\ req.code = Str(<<" ">>)
  /\ resp.status = 400

\* the phone passes the local checks of the normalising revisions
PassesLocalChecks(v) == DigitCount(v) = 10 /\ ~IsFakeLocal(StripNonDigits(RawChars(v)))

\* C9 as stated: with the verification-service identifier not configured,
\* every POST /start-verify, for every phone input, is answered with 500.
C9_UnconfiguredAlways500 ==
  (req.endpoint = "start-verify" /\ ~Truthy(verifySid) /\ pc = "done")
  => resp.status = 500

\* C9 as amended: with the identifier not configured, POST /start-verify is
\* answered with HTTP 500 for every phone input in server.js, and for every
\* phone input that passes normalisation in part_001 and in the first
\* revision of part_002 (which reject a malformed phone first, with 200).
C9_Unconfigured500 ==
  (/\ req.endpoint = "start-verify"
   /\ ~Truthy(verifySid)
   /\ pc = "done"
   /\ (rev = "server" \/ PassesLocalChecks(req.phone)))
  => resp.status = 500

\* an unconfigured server.js answered a malformed phone with 500
C9_Witness ==
  /\ req.endpoint = "start-verify"
  /\ pc = "done"
  /\ rev = "server"
  /\ ~Truthy(verifySid)
  /\ req.phone = Str(<<"5","5","5","-">>)
  /\ resp.status = 500

\* C10 as stated: a POST /validate-phone with no phone field, or an empty
\* one, is answered with HTTP 400, valid:false and a message.
C10_MissingPhone400 ==
  (req.endpoint = "validate-phone" /\ ~Truthy(req.phone) /\ pc # "idle")
  => (/\ pc = "done"
      /\ resp.status = 400
      /\ IsInvalid(resp.body)
      /\ Has(resp.body, "message"))

\* C10 as amended: a POST /validate-phone with no phone field, or an empty
\* one, is answered at once with valid:false and a message; the status is
\* HTTP 400 in part_000 and HTTP 200 in the revisions with the local length
\* check, which reject it as a bad length.
C10_MissingPhoneRejected ==
  (req.endpoint = "validate-phone" /\ ~Truthy(req.phone) /\ pc # "idle")
  => (/\ pc = "done"
      /\ calls = <<>>
      /\ resp.status = (IF rev = "part000" THEN 400 ELSE 200)
      /\ IsInvalid(resp.body)
      /\ Has(resp.body, "message"))

\* part_000 answered a request without a phone field
C10_Witness ==
  /\ ValidateDone
  /\ rev = "part000"
  /\ req.phone = Undef
  /\ resp.status = 400

\* the line type is 'voip' in some letter case
IsVoip(v) ==
  /\ v.t = "str"
  /\ Len(v.s) = Len(S_voip)
  /\ \A i \in 1..Len(S_voip) : v.s[i] \in {S_voip[i], <<"V", "O", "I", "P">>[i]}

\* C11: in the VOIP-blocking revisions (part_000 and the second revision of
\* part_002) a resolved lookup whose line type is 'voip' in any letter case
\* yields valid:false, whatever the country code, reachability and number.
C11_VoipBlocked ==
  (/\ ValidateDone
   /\ lookup.state = "resolved"
   /\ \/ rev = "part000" /\ IsVoip(lookup.carrierType)
      \/ rev = "part002b" /\ IsVoip(lookup.lineType))
  => IsInvalid(resp.body)

\* part_000 turned down a mixed-case 'VoIP' number that is not toll-free
C11_Witness ==
  /\ ValidateDone
  /\ rev = "part000"
  /\ lookup.state = "resolved"
  /\ lookup.carrierType = Str(<<"V", "o", "I", "P">>)
  /\ lookup.countryCode = Str(S_US)
  /\ lookup.phoneNumber = Str(PlainNumber)
  /\ IsInvalid(resp.body)

\* The revisions whose verdicts name a reason
ReasonRevs == {"server", "part001", "part002a"}

\* C12 as stated: POST /validate-phone gives reason 'non-us' only when the
\* lookup's countryCode is present and is not 'US'; a resolved lookup whose
\* countryCode is absent is not rejected as 'non-us'.
C12_NonUsOnlyIfPresent ==
  ValidateDone =>
    /\ HasReason(resp.body, S_non_us) =>
         /\ lookup.state = "resolved"
         /\ lookup.countryCode.t = "str"
         /\ lookup.countryCode # Str(S_US)
    /\ (lookup.state = "resolved" /\ lookup.countryCode = Undef) =>
         ~HasReason(resp.body, S_non_us)

\* C12 as amended: POST /validate-phone gives reason 'non-us' only when the
\* lookup resolved and its countryCode is not 'US', and an absent countryCode
\* counts as not 'US': in server.js, part_001 and the first revision of
\* part_002 every resolved lookup whose countryCode is absent or differs
\* from 'US' is rejected as 'non-us' and reaches no later rule.
C12_NonUsWhenNotUs ==
  ValidateDone =>
    /\ HasReason(resp.body, S_non_us) =>
         /\ lookup.state = "resolved"
         /\ lookup.countryCode # Str(S_US)
    /\ (/\ rev \in ReasonRevs
        /\ lookup.state = "resolved"
        /\ lookup.countryCode # Str(S_US)) =>
         /\ IsInvalid(resp.body)
         /\ HasReason(resp.body, S_non_us)

\* server.js rejected a reachable mobile as 'non-us' for want of a countryCode
C12_Witness ==
  /\ ValidateDone
  /\ rev = "server"
  /\ lookup.state = "resolved"
  /\ lookup.countryCode = Undef
  /\ lookup.lineType = Str(S_mobile)
  /\ lookup.reachability = Str(S_reachable)
  /\ HasReason(resp.body, S_non_us)
  /\ resp.body["countryCode"] = Null

\* C13: in the revisions with local checks, a POST /validate-phone calls the
\* lookup only after normalisation has succeeded: a request rejected locally
\* (bad length or fake pattern) makes no provider call, and a request makes
\* at most one lookup call, a failed lookup being answered without a retry.
C13_LookupOnlyAfterNormalize ==
  (rev \in LocalCheckRevs /\ req.endpoint = "validate-phone") =>
    /\ Len(calls) <= 1
    /\ \A i \in DOMAIN calls : calls[i].op = "lookups.fetch"
    /\ calls # <<>> => PassesLocalChecks(req.phone)
    /\ ~PassesLocalChecks(req.phone) => (pc = "done" /\ calls = <<>>)
    /\ (/\ pc = "done"
        /\ \/ CarriesCode(resp.body, S_bad_length)
           \/ CarriesCode(resp.body, S_fake)) => calls = <<>>
    /\ lookup.state = "rejected" => (pc = "done" /\ sent = 1 /\ Len(calls) = 1)

\* part_001 answered a failed lookup after its one and only call
C13_Witness ==
  /\ ValidateDone
  /\ rev = "part001"
  /\ lookup.state = "rejected"
  /\ calls = <<[op |-> "lookups.fetch",
               to |-> <<"+","1","5","5","5","8","8","8","8","8","8","0">>]>>
  /\ resp.status = 500

====
